---- MODULE Spec2Model ----
(***************************************************************************)
(* heap_monitor.py: the heap dump monitor.  A handler thread turns every   *)
(* detected file into a HeapDumpReport object, stores a REFERENCE to it in *)
(* ReportManager.reports under a lock and starts one background thread per *)
(* report; the background thread runs the analyzer, then assigns the       *)
(* result to the fields of that same object, one attribute at a time and   *)
(* outside the lock, and finally calls update_report.  Request threads     *)
(* read the store under the lock and the objects' fields outside it.       *)
(*                                                                         *)
(* Python objects are modelled as a heap: reports[r] holds the fields of   *)
(* object r, and the store, the local variables and the returned lists     *)
(* hold object numbers, so that aliasing is what it is in the program.     *)
(***************************************************************************)
EXTENDS Integers, Sequences, FiniteSets, TLC

(* ---- bounds of the model ---- *)
\* number of HeapDumpReport objects (files submitted) in a run
MaxReports == 2
\* last reading of the wall clock, in ticks
MaxTime == 1
\* largest elapsed time (time.time() - start_time) an analyzer run reports
MaxElapsed == 1

(* ---- program constants ---- *)
\* subprocess timeout and the processing_time reported for it
TimeoutSeconds == 3600
\* clock ticks per second: datetime.now() is finer than the %S of the id
TicksPerSecond == 2

Objs == 1..MaxReports
Times == 0..MaxTime

\* Optional[T]: None, or a value
None == <<>>
Some(x) == <<x>>

VARIABLES
  now,        \* the wall clock read by datetime.now()
  adjusted,   \* whether the wall clock has been set back since the start
  reports,    \* heap: object number -> fields of the HeapDumpReport
  store,      \* ReportManager.reports: report_id -> object number
  lock,       \* ReportManager.lock: "free", or the thread holding it
  hpc,        \* handler thread: position in _process_heap_dump
  hcur,       \* handler thread: local `report` (0 when none)
  hpath,      \* handler thread: local `file_path` of on_created (<<>> when none)
  pc,         \* background thread of object r: position in _background_process
  result,     \* background thread of object r: local `result`
  nupdates,   \* number of update_report calls made by the thread of object r
  rpc,        \* request thread: position in its route handler
  snap,       \* request thread: local `reports`, the list get_all_reports returned
  ret,        \* request thread: local `report`, what get_report_by_id returned
  counts,     \* request thread: locals of get_status
  lastcall    \* the store operation applied last (store-level specification)

vars == <<now, adjusted, reports, store, lock, hpc, hcur, hpath, pc, result,
          nupdates, rpc, snap, ret, counts, lastcall>>

(* ------------------------------------------------------------------ *)
(* Strings: file names and paths are sequences of characters.          *)
(* ------------------------------------------------------------------ *)
Positions(s, c) == {i \in 1..Len(s) : s[i] = c}
Min(S) == CHOOSE x \in S : \A y \in S : x <= y
Max(S) == CHOOSE x \in S : \A y \in S : x >= y

\* os.path.basename / os.path.dirname
Basename(p) ==
  IF Positions(p, "/") = {} THEN p
  ELSE SubSeq(p, Max(Positions(p, "/")) + 1, Len(p))
Dirname(p) ==
  IF Positions(p, "/") = {} THEN <<>>
  ELSE IF Max(Positions(p, "/")) = 1 THEN <<"/">>
  ELSE SubSeq(p, 1, Max(Positions(p, "/")) - 1)

\* a split at the last dot wherever it is
Splitext0_LastDot(s) ==
  IF Positions(s, ".") = {} THEN s ELSE SubSeq(s, 1, Max(Positions(s, ".")) - 1)
\* os.path.splitext(name)[0]: cut at the last dot, unless that dot is
\* leading (only dots before it)
Splitext0(s) ==
  LET dots == Positions(s, ".")
  IN IF dots = {} THEN s
     ELSE LET d == Max(dots)
          IN IF \A i \in 1..d : s[i] = "." THEN s ELSE SubSeq(s, 1, d - 1)

\* r'^([^_]+)_.*' : the token before the first underscore, if not empty
Pattern1Matches(s) == Positions(s, "_") # {} /\ Min(Positions(s, "_")) > 1
Pattern1Group(s) == SubSeq(s, 1, Min(Positions(s, "_")) - 1)

\* r'.*_([^_]+)_.*' : a non-empty underscore-free token between two
\* underscores; the leading .* is greedy, so the last such token
Pattern2Starts(s) ==
  {i \in Positions(s, "_") :
     \E j \in Positions(s, "_") :
        j > i + 1 /\ \A k \in (i + 1)..(j - 1) : s[k] # "_"}
Pattern2Matches(s) == Pattern2Starts(s) # {}
Pattern2Group(s) ==
  LET i == Max(Pattern2Starts(s))
      j == Min({k \in Positions(s, "_") : k > i})
  IN SubSeq(s, i + 1, j - 1)

\* r'^([^.]+)\..*' : the token before the first dot, if not empty
Pattern3Matches(s) == Positions(s, ".") # {} /\ Min(Positions(s, ".")) > 1
Pattern3Group(s) == SubSeq(s, 1, Min(Positions(s, ".")) - 1)

_extract_machine_name(filename) ==
  IF Pattern1Matches(filename) THEN Pattern1Group(filename)
  ELSE IF Pattern2Matches(filename) THEN Pattern2Group(filename)
  ELSE IF Pattern3Matches(filename) THEN Pattern3Group(filename)
  ELSE Splitext0(filename)

\* the files dropped into the watched directory in a run
Files ==
  { <<"/", "w", "_", "1", ".", "b", "i", "n">>,
    <<"/", "w", "_", "2", ".", "b", "i", "n">>,
    <<"/", "d", ".", "b", "i", "n">> }

\* the file of the specifications that need one file only
DateFile == <<"/", "d", ".", "b", "i", "n">>

(* ------------------------------------------------------------------ *)
(* HeapDumpReport and the analyzer.                                    *)
(* ------------------------------------------------------------------ *)
\* the dataclass constructor as _process_heap_dump calls it: the four
\* result fields take their defaults
HeapDumpReport(machine_name, timestamp, filename, file_path) ==
  [ machine_name    |-> machine_name,
    timestamp       |-> timestamp,
    filename        |-> filename,
    file_path       |-> file_path,
    status          |-> "processing",
    suspects_report |-> None,
    overview_report |-> None,
    error_message   |-> None,
    processing_time |-> None ]

\* a heap cell no object has been created in yet
NoReport ==
  [ machine_name    |-> <<>>,
    timestamp       |-> 0,
    filename        |-> <<>>,
    file_path       |-> <<>>,
    status          |-> "unallocated",
    suspects_report |-> None,
    overview_report |-> None,
    error_message   |-> None,
    processing_time |-> None ]

\* what one analyzer run does, as the environment decides it: how the
\* subprocess ends, which report files exist afterwards, the time it took
Runs ==
  [ kind : {"exit0"}, suspects_exists : BOOLEAN, overview_exists : BOOLEAN,
    elapsed : 1..MaxElapsed ]
  \cup
  [ kind : {"nonzero", "timeout", "error"}, suspects_exists : {FALSE},
    overview_exists : {FALSE}, elapsed : 1..MaxElapsed ]

\* the analyzer runs of the concurrent specifications: a success that
\* leaves the suspects report only, and a non-zero exit
TaskRuns ==
  {run \in Runs :
     /\ run.elapsed = 1
     /\ \/ run.kind = "exit0" /\ run.suspects_exists /\ ~run.overview_exists
        \/ run.kind = "nonzero"}

SuspectsPath(file_path) ==
  [dir |-> Dirname(file_path), name |-> Splitext0(Basename(file_path)),
   suffix |-> "_Leak_Suspects.html"]
OverviewPath(file_path) ==
  [dir |-> Dirname(file_path), name |-> Splitext0(Basename(file_path)),
   suffix |-> "_System_Overview.html"]

\* a report path set whether or not the analyzer wrote the file
PathIfExists_Always(exists, path) == Some(path)

\* lines 83-84: `path if os.path.exists(path) else None`
PathIfExists(exists, path) == IF exists THEN Some(path) ELSE None

\* a timeout result that carries no processing time
TimeoutResult_NoTime ==
  [ status        |-> "failed",
    error_message |-> Some("Processing timeout (1 hour exceeded)") ]

\* lines 97-101: the dict returned when the subprocess timed out
TimeoutResult ==
  [ status          |-> "failed",
    error_message   |-> Some("Processing timeout (1 hour exceeded)"),
    processing_time |-> Some(TimeoutSeconds) ]

\* the dict process_heap_dump returns; a key it does not set is absent
process_heap_dump(file_path, run) ==
  IF run.kind = "exit0" THEN
    [ status          |-> "completed",
      suspects_report |-> PathIfExists(run.suspects_exists, SuspectsPath(file_path)),
      overview_report |-> PathIfExists(run.overview_exists, OverviewPath(file_path)),
      processing_time |-> Some(run.elapsed) ]
  ELSE IF run.kind = "nonzero" THEN
    [ status          |-> "failed",
      error_message   |-> Some("result.stderr"),
      processing_time |-> Some(run.elapsed) ]
  ELSE IF run.kind = "timeout" THEN TimeoutResult
  ELSE
    [ status          |-> "failed",
      error_message   |-> Some("str(e)"),
      processing_time |-> Some(run.elapsed) ]

\* result.get(key): None for a key the dict does not hold
Get(d, key) == IF key \in DOMAIN d THEN d[key] ELSE None

\* the local `result` before process_heap_dump has returned
NoResult == [status |-> "none"]

(* ------------------------------------------------------------------ *)
(* ReportManager.                                                      *)
(* ------------------------------------------------------------------ *)
\* strftime('%Y%m%d_%H%M%S'): the timestamp to the second
Strftime(timestamp) == timestamp \div TicksPerSecond

\* f"{report.machine_name}_{report.timestamp.strftime('%Y%m%d_%H%M%S')}"
report_id(report) ==
  Append(Append(report.machine_name, "_"), Strftime(report.timestamp))

\* dict assignment d[k] = v
DictSet(d, k, v) == [x \in DOMAIN d \cup {k} |-> IF x = k THEN v ELSE d[x]]

\* update_report without its membership test
update_report_Unguarded(d, r, rep) == DictSet(d, report_id(rep), r)

\* the bodies of add_report and update_report, run with the lock held;
\* r is the object passed, rep its fields at the time of the call
\* an insert that loses the report
add_report_NoStore(d, r, rep) == d
add_report(d, r, rep) == DictSet(d, report_id(rep), r)
update_report(d, r, rep) ==
  IF report_id(rep) \in DOMAIN d THEN DictSet(d, report_id(rep), r) ELSE d

\* list(self.reports.values()): no two keys hold the same object, so the
\* list is the set of its elements
get_all_reports(d) == {d[k] : k \in DOMAIN d}
\* self.reports.get(report_id): object 0 stands for None
get_report_by_id(d, id) == IF id \in DOMAIN d THEN d[id] ELSE 0

EmptyDict == [k \in {} |-> 0]

(* ------------------------------------------------------------------ *)
(* Initial state: main() has built the ReportManager and the handler.  *)
(* ------------------------------------------------------------------ *)
\* the holders of ReportManager.lock
Free == <<"free", 0>>
HandlerThread == <<"handler", 0>>
RequestThread == <<"request", 0>>
TaskThread(r) == <<"task", r>>

\* the request thread between two requests
Idle == <<"idle", "">>

NoCounts == [total_reports |-> 0, processing |-> 0, completed |-> 0, failed |-> 0]
NoCall == [op |-> "none", arg |-> 0]

Init ==
  /\ now = 0
  /\ adjusted = FALSE
  /\ reports = [r \in Objs |-> NoReport]
  /\ store = EmptyDict
  /\ lock = Free
  /\ hpc = "idle"
  /\ hcur = 0
  /\ hpath = <<>>
  /\ pc = [r \in Objs |-> "none"]
  /\ result = [r \in Objs |-> NoResult]
  /\ nupdates = [r \in Objs |-> 0]
  /\ rpc = Idle
  /\ snap = {}
  /\ ret = 0
  /\ counts = NoCounts
  /\ lastcall = NoCall

readerVars == <<rpc, snap, ret, counts>>
handlerVars == <<hpc, hcur, hpath>>
taskVars == <<pc, result, nupdates>>

\* the wall clock advances
Tick ==
  /\ now < MaxTime
  /\ now' = now + 1
  /\ UNCHANGED <<adjusted, reports, store, lock, handlerVars, taskVars, readerVars, lastcall>>

(* ------------------------------------------------------------------ *)
(* The handler thread: HeapDumpHandler._process_heap_dump.             *)
(* ------------------------------------------------------------------ *)
\* the handler starting the thread without storing the report
AfterCreate_NoAdd == "l149"
\* the handler storing the report without starting the thread
AfterAdd_NoStart == "idle"

\* where the handler goes after building the report (to add_report) and
\* after add_report has returned (to thread.start())
AfterCreate == "l141"
AfterAdd == "l149"

\* lines 130-140: the report object is built from the path and the clock
BuildReport(file_path) ==
  /\ \E r \in Objs :
       /\ pc[r] = "none"
       /\ \A q \in Objs : q < r => pc[q] # "none"
       /\ LET filename == Basename(file_path)
              machine_name == _extract_machine_name(filename)
              timestamp == now
          IN reports' = [reports EXCEPT ![r] =
                           HeapDumpReport(machine_name, timestamp, filename, file_path)]
       /\ pc' = [pc EXCEPT ![r] = "new"]
       /\ hcur' = r
  /\ hpc' = AfterCreate
  /\ UNCHANGED <<now, adjusted, store, lock, result, nupdates, readerVars, lastcall>>

\* _process_heap_dump(file_path) is called
CreateReport(file_path) ==
  /\ hpc = "idle"
  /\ BuildReport(file_path)
  /\ UNCHANGED hpath

\* a critical section left with the lock still held by the thread
LockAfterBody_Kept(thread) == thread

\* the end of a `with self.lock:` block: the lock is released
LockAfterBody(thread) == Free

\* line 141 -> 196: add_report takes the lock
AddReportAcquire ==
  /\ hpc = "l141"
  /\ lock = Free
  /\ lock' = HandlerThread
  /\ hpc' = "l197"
  /\ UNCHANGED <<now, adjusted, reports, store, hcur, hpath, taskVars, readerVars, lastcall>>

\* lines 197-198: the reference is stored under the id, the lock released
AddReportBody ==
  /\ hpc = "l197"
  /\ store' = add_report(store, hcur, reports[hcur])
  /\ lock' = LockAfterBody(HandlerThread)
  /\ hpc' = AfterAdd
  /\ UNCHANGED <<now, adjusted, reports, hcur, hpath, taskVars, readerVars, lastcall>>

\* lines 144-149: the background thread of the report is started
ThreadStart ==
  /\ hpc = "l149"
  /\ pc' = [pc EXCEPT ![hcur] = "l156"]
  /\ hpc' = "idle"
  /\ hcur' = 0
  /\ UNCHANGED <<now, adjusted, reports, store, lock, hpath, result, nupdates, readerVars, lastcall>>

(* ------------------------------------------------------------------ *)
(* The handler thread: HeapDumpHandler.on_created.                     *)
(* ------------------------------------------------------------------ *)
\* line 115: self.heap_dump_extensions
heap_dump_extensions ==
  { <<".", "h", "p", "r", "o", "f">>, <<".", "d", "u", "m", "p">>, <<".", "b", "i", "n">> }

\* str.lower()
UpperCase ==
  <<"A", "B", "C", "D", "E", "F", "G", "H", "I", "J", "K", "L", "M",
    "N", "O", "P", "Q", "R", "S", "T", "U", "V", "W", "X", "Y", "Z">>
LowerCase ==
  <<"a", "b", "c", "d", "e", "f", "g", "h", "i", "j", "k", "l", "m",
    "n", "o", "p", "q", "r", "s", "t", "u", "v", "w", "x", "y", "z">>
LowerChar(c) ==
  IF \E i \in 1..26 : UpperCase[i] = c
  THEN LowerCase[CHOOSE i \in 1..26 : UpperCase[i] = c]
  ELSE c
Lower(s) == [i \in 1..Len(s) |-> LowerChar(s[i])]

\* str.endswith
EndsWith(s, suffix) ==
  /\ Len(s) >= Len(suffix)
  /\ SubSeq(s, Len(s) - Len(suffix) + 1, Len(s)) = suffix

\* line 122: any(file_path.lower().endswith(ext) for ext in ...)
IsHeapDump(file_path) ==
  \E ext \in heap_dump_extensions : EndsWith(Lower(file_path), ext)

\* line 124: time.sleep(2)
SleepSeconds == 2

\* lines 118-122: an event is delivered; a directory, or a path that is
\* no heap dump, is ignored; a heap dump makes the handler sleep. A heap
\* dump is taken only while an object of the model is left for its report.
OnCreated(event) ==
  /\ hpc = "idle"
  /\ IF ~event.is_directory /\ IsHeapDump(event.src_path)
     THEN /\ \E r \in Objs : pc[r] = "none"
          /\ hpc' = "l124"
          /\ hpath' = event.src_path
     ELSE UNCHANGED <<hpc, hpath>>
  /\ UNCHANGED <<now, adjusted, reports, store, lock, hcur, taskVars, readerVars,
                 lastcall>>

\* on_created without the settle delay
SettleDelay_NoSleep ==
  /\ hpc = "l124"
  /\ hpc' = "l125"
  /\ UNCHANGED <<now, adjusted, reports, store, lock, hcur, hpath, taskVars,
                 readerVars, lastcall>>

\* line 124: time.sleep(2) returns, two seconds later or more
SettleDelay ==
  /\ hpc = "l124"
  /\ \E late \in {0, 1} : now' = now + SleepSeconds * TicksPerSecond + late
  /\ hpc' = "l125"
  /\ UNCHANGED <<adjusted, reports, store, lock, hcur, hpath, taskVars, readerVars,
                 lastcall>>

\* line 125: _process_heap_dump(file_path) is called, lines 130-140 run
Submit ==
  /\ hpc = "l125"
  /\ BuildReport(hpath)
  /\ hpath' = <<>>

\* the wall clock datetime.now() reads is set back (a clock correction,
\* the end of daylight saving time); modelled once in a run
ClockSetBack ==
  /\ ~adjusted
  /\ adjusted' = TRUE
  /\ \E t \in 0..(now - 1) : now' = t
  /\ UNCHANGED <<reports, store, lock, handlerVars, taskVars, readerVars, lastcall>>
(* ------------------------------------------------------------------ *)
(* The background thread of report r: _background_process(report).     *)
(* ------------------------------------------------------------------ *)
\* the assignments with the status written after the suspects report
FieldAt_StatusSecond(line) ==
  CASE line = "l158" -> "suspects_report"
    [] line = "l159" -> "status"
    [] line = "l160" -> "overview_report"
    [] line = "l161" -> "error_message"
    [] line = "l162" -> "processing_time"

\* lines 158-162: which attribute of the report each line assigns
FieldAt(line) ==
  CASE line = "l158" -> "status"
    [] line = "l159" -> "suspects_report"
    [] line = "l160" -> "overview_report"
    [] line = "l161" -> "error_message"
    [] line = "l162" -> "processing_time"

\* the line after each line of the try block
NextLine(line) ==
  CASE line = "l158" -> "l159"
    [] line = "l159" -> "l160"
    [] line = "l160" -> "l161"
    [] line = "l161" -> "l162"
    [] line = "l162" -> "l163"

\* a log line that raises after the update: the except clause runs next
AfterUpdate_Raises == "l169"

\* where the thread goes once update_report has returned: lines 164-167
\* and 172 only log
AfterUpdate == "done"

\* line 156: process_heap_dump returns its dict
AnalyzerReturn(r, run) ==
  /\ pc[r] = "l156"
  /\ result' = [result EXCEPT ![r] = process_heap_dump(reports[r].file_path, run)]
  /\ pc' = [pc EXCEPT ![r] = "l158"]
  /\ UNCHANGED <<now, adjusted, reports, store, lock, handlerVars, nupdates, readerVars, lastcall>>

\* line 156: an exception leaves process_heap_dump (its own handlers
\* raising); control goes to the except clause of line 168
AnalyzerRaise(r) ==
  /\ pc[r] = "l156"
  /\ pc' = [pc EXCEPT ![r] = "l169"]
  /\ UNCHANGED <<now, adjusted, reports, store, lock, handlerVars, result, nupdates,
                 readerVars, lastcall>>

\* lines 158-162: one attribute of the report object is assigned, with no
\* lock held; the object may already be the one the store refers to
AssignField(r) ==
  /\ pc[r] \in {"l158", "l159", "l160", "l161", "l162"}
  /\ LET field == FieldAt(pc[r])
         value == IF field = "status" THEN result[r].status
                  ELSE Get(result[r], field)
     IN reports' = [reports EXCEPT ![r][field] = value]
  /\ pc' = [pc EXCEPT ![r] = NextLine(pc[r])]
  /\ UNCHANGED <<now, adjusted, store, lock, handlerVars, result, nupdates, readerVars, lastcall>>

\* line 169: report.status = 'failed'
ExceptStatus(r) ==
  /\ pc[r] = "l169"
  /\ reports' = [reports EXCEPT ![r].status = "failed"]
  /\ pc' = [pc EXCEPT ![r] = "l170"]
  /\ UNCHANGED <<now, adjusted, store, lock, handlerVars, result, nupdates, readerVars, lastcall>>

\* line 170: report.error_message = str(e)
ExceptMessage(r) ==
  /\ pc[r] = "l170"
  /\ reports' = [reports EXCEPT ![r].error_message = Some("str(e)")]
  /\ pc' = [pc EXCEPT ![r] = "l171"]
  /\ UNCHANGED <<now, adjusted, store, lock, handlerVars, result, nupdates, readerVars, lastcall>>

\* line 163 or 171 -> 202: update_report takes the lock
UpdateReportAcquire(r) ==
  /\ pc[r] \in {"l163", "l171"}
  /\ lock = Free
  /\ lock' = TaskThread(r)
  /\ pc' = [pc EXCEPT ![r] = "l203"]
  /\ UNCHANGED <<now, adjusted, reports, store, handlerVars, result, nupdates, readerVars, lastcall>>

\* lines 203-205: the entry is replaced if the id is a key, the lock released
UpdateReportBody(r) ==
  /\ pc[r] = "l203"
  /\ store' = update_report(store, r, reports[r])
  /\ lock' = LockAfterBody(TaskThread(r))
  /\ pc' = [pc EXCEPT ![r] = AfterUpdate]
  /\ nupdates' = [nupdates EXCEPT ![r] = @ + 1]
  /\ UNCHANGED <<now, adjusted, reports, handlerVars, result, readerVars, lastcall>>

(* ------------------------------------------------------------------ *)
(* A request thread: the routes of create_app.                         *)
(* ------------------------------------------------------------------ *)
\* GET /api/reports, line 291: get_all_reports is called
ReportsRequest ==
  /\ rpc = Idle
  /\ rpc' = <<"l291", "call">>
  /\ UNCHANGED <<now, adjusted, reports, store, lock, handlerVars, taskVars, snap, ret,
                 counts, lastcall>>

\* lines 222-223: get_all_reports takes the lock
ReportsAcquire ==
  /\ rpc = <<"l291", "call">>
  /\ lock = Free
  /\ lock' = RequestThread
  /\ rpc' = <<"l291", "locked">>
  /\ UNCHANGED <<now, adjusted, reports, store, handlerVars, taskVars, snap, ret, counts, lastcall>>

\* line 224: the list of the stored references is returned, the lock released
ReportsList ==
  /\ rpc = <<"l291", "locked">>
  /\ snap' = get_all_reports(store)
  /\ lock' = Free
  /\ rpc' = <<"l292", "">>
  /\ UNCHANGED <<now, adjusted, reports, store, handlerVars, taskVars, ret, counts, lastcall>>

\* line 292: asdict reads the fields of every report of the list
ReportsResponse == {reports[r] : r \in snap}

\* the response is sent and the locals die
ReportsRespond ==
  /\ rpc = <<"l292", "">>
  /\ snap' = {}
  /\ rpc' = Idle
  /\ UNCHANGED <<now, adjusted, reports, store, lock, handlerVars, taskVars, ret, counts, lastcall>>

\* the ids a client asks for: the keys of the store, and one that is none
UnknownId == <<"x", "_", 0>>
RequestIds == DOMAIN store \cup {UnknownId}

\* GET /api/reports/<report_id>/suspects, line 309: get_report_by_id is called
SuspectsRequest(id) ==
  /\ rpc = Idle
  /\ rpc' = <<"l309", "call", id>>
  /\ UNCHANGED <<now, adjusted, reports, store, lock, handlerVars, taskVars, snap, ret,
                 counts, lastcall>>

\* lines 227-228: get_report_by_id takes the lock
SuspectsAcquire ==
  /\ rpc[1] = "l309" /\ rpc[2] = "call"
  /\ lock = Free
  /\ lock' = RequestThread
  /\ rpc' = <<"l309", "locked", rpc[3]>>
  /\ UNCHANGED <<now, adjusted, reports, store, handlerVars, taskVars, snap, ret, counts, lastcall>>

\* line 229: the stored reference (or None) is returned, the lock released
SuspectsGet ==
  /\ rpc[1] = "l309" /\ rpc[2] = "locked"
  /\ ret' = get_report_by_id(store, rpc[3])
  /\ lock' = Free
  /\ rpc' = <<"l310", "">>
  /\ UNCHANGED <<now, adjusted, reports, store, handlerVars, taskVars, snap, counts, lastcall>>

\* lines 310-312: 404 unless the report is there, has a suspects report and
\* the file exists; else the file is sent
SuspectsResponse(exists) ==
  IF ret = 0 \/ reports[ret].suspects_report = None \/ ~exists
  THEN [code |-> 404, file |-> None]
  ELSE [code |-> 200, file |-> reports[ret].suspects_report]

\* the response is sent and the locals die
SuspectsRespond ==
  /\ rpc = <<"l310", "">>
  /\ ret' = 0
  /\ rpc' = Idle
  /\ UNCHANGED <<now, adjusted, reports, store, lock, handlerVars, taskVars, snap, counts, lastcall>>

(* ---- GET /api/status: get_status, lines 325-335 ---- *)
StatusLines == {"l325", "l326", "l327", "l328"}

\* the local each line of get_status assigns
CountAt(line) ==
  CASE line = "l325" -> "total_reports"
    [] line = "l326" -> "processing"
    [] line = "l327" -> "completed"
    [] line = "l328" -> "failed"

NextStatusLine(line) ==
  CASE line = "l325" -> <<"l326", "call">>
    [] line = "l326" -> <<"l327", "call">>
    [] line = "l327" -> <<"l328", "call">>
    [] line = "l328" -> <<"l329", "">>

StatusRequest ==
  /\ rpc = Idle
  /\ rpc' = <<"l325", "call">>
  /\ counts' = NoCounts
  /\ UNCHANGED <<now, adjusted, reports, store, lock, handlerVars, taskVars, snap, ret, lastcall>>

\* each of the four lines calls get_all_reports: it takes the lock
StatusAcquire ==
  /\ rpc[1] \in StatusLines /\ rpc[2] = "call"
  /\ lock = Free
  /\ lock' = RequestThread
  /\ rpc' = <<rpc[1], "locked">>
  /\ UNCHANGED <<now, adjusted, reports, store, handlerVars, taskVars, snap, ret, counts, lastcall>>

\* line 224: the list is returned, the lock released
StatusList ==
  /\ rpc[1] \in StatusLines /\ rpc[2] = "locked"
  /\ snap' = get_all_reports(store)
  /\ lock' = Free
  /\ rpc' = <<rpc[1], "ret">>
  /\ UNCHANGED <<now, adjusted, reports, store, handlerVars, taskVars, ret, counts, lastcall>>

\* the rest of the line: len() of the list, or of those of its reports whose
\* status, read now, is the one counted
StatusCount ==
  /\ rpc[1] \in StatusLines /\ rpc[2] = "ret"
  /\ LET key == CountAt(rpc[1])
         n == IF key = "total_reports" THEN Cardinality(snap)
              ELSE Cardinality({r \in snap : reports[r].status = key})
     IN counts' = [counts EXCEPT ![key] = n]
  /\ snap' = {}
  /\ rpc' = NextStatusLine(rpc[1])
  /\ UNCHANGED <<now, adjusted, reports, store, lock, handlerVars, taskVars, ret, lastcall>>

\* lines 329-335: the four locals are sent
StatusResponse == counts

\* the response is sent and the locals die
StatusRespond ==
  /\ rpc = <<"l329", "">>
  /\ counts' = NoCounts
  /\ rpc' = Idle
  /\ UNCHANGED <<now, adjusted, reports, store, lock, handlerVars, taskVars, snap, ret, lastcall>>

(* ------------------------------------------------------------------ *)
(* Specifications.                                                     *)
(* ------------------------------------------------------------------ *)
Handler ==
  \/ \E file_path \in Files : CreateReport(file_path)
  \/ AddReportAcquire
  \/ AddReportBody
  \/ ThreadStart

\* the steps of a background thread whose process_heap_dump call returns
TaskReturns(r) ==
  \/ \E run \in TaskRuns : AnalyzerReturn(r, run)
  \/ AssignField(r)
  \/ UpdateReportAcquire(r)
  \/ UpdateReportBody(r)

\* the steps of one whose call raises
TaskRaises(r) ==
  \/ AnalyzerRaise(r)
  \/ ExceptStatus(r)
  \/ ExceptMessage(r)

Task(r) == TaskReturns(r) \/ TaskRaises(r)

ReportsRoute == ReportsRequest \/ ReportsAcquire \/ ReportsList \/ ReportsRespond

SuspectsRoute ==
  \/ \E id \in RequestIds : SuspectsRequest(id)
  \/ SuspectsAcquire
  \/ SuspectsGet
  \/ SuspectsRespond

StatusRoute ==
  StatusRequest \/ StatusAcquire \/ StatusList \/ StatusCount \/ StatusRespond

\* the monitor: the handler thread, the background threads, the clock
Next ==
  \/ Tick
  \/ Handler
  \/ \E r \in Objs : Task(r)

Spec == Init /\ [][Next]_vars

\* the monitor in the runs in which no analyzer call raises
NextReturns ==
  \/ Tick
  \/ Handler
  \/ \E r \in Objs : TaskReturns(r)

SpecReturns == Init /\ [][NextReturns]_vars

\* the same with a client listing the reports and fetching one by id
NextApi ==
  \/ Tick
  \/ Handler
  \/ \E r \in Objs : TaskReturns(r)
  \/ ReportsRoute
  \/ SuspectsRoute

SpecApi == Init /\ [][NextApi]_vars

\* the same with a client polling /api/status
NextStatus ==
  \/ Tick
  \/ Handler
  \/ \E r \in Objs : TaskReturns(r)
  \/ StatusRoute

SpecStatus == Init /\ [][NextStatus]_vars

\* the monitor under fair scheduling: a thread that can take a step takes
\* one, the analyzer ends, a thread holding the lock releases it, a thread
\* created is started; files need not keep arriving
Fairness ==
  /\ \A r \in Objs : WF_vars(Task(r))
  /\ WF_vars(AddReportAcquire \/ AddReportBody \/ ThreadStart)

FairSpec == Init /\ [][Next]_vars /\ Fairness

(* ---- the monitor fed by on_created ---- *)
\* a path that is no heap dump
NotADump == <<"/", "n", ".", "t", "x", "t">>

\* the events the observer delivers, one after the other
IntakeEvents == [src_path : Files \cup {NotADump}, is_directory : BOOLEAN]

\* on_created, the settle delay, then _process_heap_dump
Intake(events) ==
  \/ \E event \in events : OnCreated(event)
  \/ SettleDelay
  \/ Submit
  \/ AddReportAcquire
  \/ AddReportBody
  \/ ThreadStart

NextIntake ==
  \/ Tick
  \/ ClockSetBack
  \/ Intake(IntakeEvents)
  \/ \E r \in Objs : Task(r)

SpecIntake == Init /\ [][NextIntake]_vars

\* the events of one dump written again and again, and of other files
OneDumpEvents == [src_path : {DateFile, NotADump}, is_directory : BOOLEAN]

\* the monitor fed by on_created with these, the clock left alone, and a
\* client listing the reports
NextIntakeApi ==
  \/ Intake(OneDumpEvents)
  \/ \E r \in Objs : Task(r)
  \/ ReportsRoute

SpecIntakeApi == Init /\ [][NextIntakeApi]_vars

(* ---- the machine name of the first file, any name ---- *)
\* the longest file name stem of this specification
MaxStem == 5

StemChars == {"a", "b", "_", "."}
Stems == UNION {[1..n -> StemChars] : n \in 0..MaxStem}
Suffixes ==
  { <<".", "b", "i", "n">>, <<".", "B", "I", "N">>, <<".", "d", "u", "m", "p">>,
    <<".", "h", "p", "r", "o", "f">>, <<".", "t", "x", "t">>, <<>> }

\* a file or a directory created in the watched directory
ExtractEvents ==
  [src_path : {<<"/">> \o stem \o suffix : stem \in Stems, suffix \in Suffixes},
   is_directory : BOOLEAN]

\* the handler thread up to the start of the first background thread
NextExtract ==
  \/ /\ hpc = "idle"
     /\ \A r \in Objs : pc[r] = "none"
     /\ \E event \in ExtractEvents : OnCreated(event)
  \/ SettleDelay
  \/ Submit
  \/ AddReportAcquire
  \/ AddReportBody
  \/ ThreadStart

SpecExtract == Init /\ [][NextExtract]_vars
(* ---- the store alone, called in any order with any report ---- *)
\* the reports a caller may hold: built by the constructor from any file
\* and any clock reading
InitStore ==
  /\ now = 0
  /\ adjusted = FALSE
  /\ reports \in [Objs -> {HeapDumpReport(_extract_machine_name(Basename(fp)), t,
                                          Basename(fp), fp) :
                             fp \in Files, t \in Times}]
  /\ store = EmptyDict
  /\ lock = Free
  /\ hpc = "idle"
  /\ hcur = 0
  /\ hpath = <<>>
  /\ pc = [r \in Objs |-> "none"]
  /\ result = [r \in Objs |-> NoResult]
  /\ nupdates = [r \in Objs |-> 0]
  /\ rpc = Idle
  /\ snap = {}
  /\ ret = 0
  /\ counts = NoCounts
  /\ lastcall = NoCall

\* a whole call of add_report / update_report: lock taken, body, lock released
CallAddReport(r) ==
  /\ lock = Free
  /\ store' = add_report(store, r, reports[r])
  /\ lastcall' = [op |-> "add_report", arg |-> r]
  /\ UNCHANGED <<now, adjusted, reports, lock, handlerVars, taskVars, readerVars>>

CallUpdateReport(r) ==
  /\ lock = Free
  /\ store' = update_report(store, r, reports[r])
  /\ lastcall' = [op |-> "update_report", arg |-> r]
  /\ UNCHANGED <<now, adjusted, reports, lock, handlerVars, taskVars, readerVars>>

NextStore ==
  \/ \E r \in Objs : CallAddReport(r)
  \/ \E r \in Objs : CallUpdateReport(r)

SpecStore == InitStore /\ [][NextStore]_vars

(* ---- one background thread, the analyzer ending in any way ---- *)
\* the steps of a background thread whose analyzer run is any of Runs
TaskAnyRun(r) ==
  \/ \E run \in Runs : AnalyzerReturn(r, run)
  \/ AssignField(r)
  \/ UpdateReportAcquire(r)
  \/ UpdateReportBody(r)
  \/ TaskRaises(r)

\* _process_heap_dump has handled one file, found at any clock reading:
\* the report is stored and its thread started
InitTask ==
  /\ now \in Times
  /\ adjusted = FALSE
  /\ \E fp \in Files :
       reports = [r \in Objs |->
                    IF r = 1
                    THEN HeapDumpReport(_extract_machine_name(Basename(fp)), now,
                                        Basename(fp), fp)
                    ELSE NoReport]
  /\ store = add_report(EmptyDict, 1, reports[1])
  /\ lock = Free
  /\ hpc = "idle"
  /\ hcur = 0
  /\ hpath = <<>>
  /\ pc = [r \in Objs |-> IF r = 1 THEN "l156" ELSE "none"]
  /\ result = [r \in Objs |-> NoResult]
  /\ nupdates = [r \in Objs |-> 0]
  /\ rpc = Idle
  /\ snap = {}
  /\ ret = 0
  /\ counts = NoCounts
  /\ lastcall = NoCall

NextTask == \E r \in Objs : TaskAnyRun(r)

SpecTask == InitTask /\ [][NextTask]_vars

(* ---- get_reports_by_date on the store alone ---- *)
\* the latest day, counted from the day the clock starts, a report of
\* this specification is detected on
MaxDay == 2

TicksPerDay == TicksPerSecond * 24 * 60 * 60

Digits10 == <<"0", "1", "2", "3", "4", "5", "6", "7", "8", "9">>
IsDigits(s) == s # <<>> /\ \A i \in 1..Len(s) : \E n \in 1..10 : Digits10[n] = s[i]
DigitVal(c) == (CHOOSE n \in 1..10 : Digits10[n] = c) - 1

\* int() of a string of digits
RECURSIVE ToInt(_)
ToInt(s) ==
  IF s = <<>> THEN 0
  ELSE 10 * ToInt(SubSeq(s, 1, Len(s) - 1)) + DigitVal(s[Len(s)])

\* the Gregorian calendar of datetime.date
IsLeap(y) == y % 4 = 0 /\ (y % 100 # 0 \/ y % 400 = 0)
DaysInMonth(y, m) ==
  IF m = 2 THEN (IF IsLeap(y) THEN 29 ELSE 28)
  ELSE IF m \in {4, 6, 9, 11} THEN 30 ELSE 31
RECURSIVE DaysBeforeMonth(_, _)
DaysBeforeMonth(y, m) ==
  IF m = 1 THEN 0 ELSE DaysBeforeMonth(y, m - 1) + DaysInMonth(y, m - 1)

\* a date object, as the number of the day: date(y, m, d).toordinal()
Ordinal(y, m, d) ==
  (y - 1) * 365 + ((y - 1) \div 4) - ((y - 1) \div 100) + ((y - 1) \div 400)
    + DaysBeforeMonth(y, m) + d

\* the day on which the clock reads 0 at midnight: 2024-02-28
EpochOrdinal == Ordinal(2024, 2, 28)

\* strptime raised ValueError
ValueError == 0

\* datetime.strptime(date_str, '%Y-%m-%d').date(): four digits, one or
\* two digits of a month, one or two digits of a day of that month,
\* separated by '-'; anything else raises ValueError
Strptime(date_str) ==
  LET dashes == {i \in 1..Len(date_str) : date_str[i] = "-"}
  IN IF Cardinality(dashes) # 2 THEN ValueError
     ELSE
       LET d1 == Min(dashes)
           d2 == Max(dashes)
           Y == SubSeq(date_str, 1, d1 - 1)
           M == SubSeq(date_str, d1 + 1, d2 - 1)
           D == SubSeq(date_str, d2 + 1, Len(date_str))
       IN IF /\ IsDigits(Y) /\ Len(Y) = 4 /\ ToInt(Y) >= 1
             /\ IsDigits(M) /\ Len(M) <= 2 /\ ToInt(M) \in 1..12
             /\ IsDigits(D) /\ Len(D) <= 2
             /\ ToInt(D) \in 1..DaysInMonth(ToInt(Y), ToInt(M))
          THEN Ordinal(ToInt(Y), ToInt(M), ToInt(D))
          ELSE ValueError

\* a comparison of the whole timestamp with the date
DateOf_NoTruncate(timestamp) == EpochOrdinal + timestamp

\* report.timestamp.date()
DateOf(timestamp) == EpochOrdinal + (timestamp \div TicksPerDay)

\* lines 212-219: the reports of the store detected on the date given
get_reports_by_date(d, reps, date_str) ==
  LET target_date == Strptime(date_str)
  IN IF target_date = ValueError THEN {}
     ELSE {d[k] : k \in {x \in DOMAIN d : DateOf(reps[d[x]].timestamp) = target_date}}

\* the date strings a client sends, each with what a reader of the
\* calendar says of it: whether it is a date written year-month-day and,
\* if so, how many days after 2024-02-28 it lies
DateInputs ==
  <<
     [str |-> <<"2", "0", "2", "4", "-", "0", "2", "-", "2", "8">>,
      parses |-> TRUE, day |-> 0],
     [str |-> <<"2", "0", "2", "4", "-", "0", "2", "-", "2", "9">>,
      parses |-> TRUE, day |-> 1],
     [str |-> <<"2", "0", "2", "4", "-", "0", "3", "-", "0", "1">>,
      parses |-> TRUE, day |-> 2],
     [str |-> <<"2", "0", "2", "4", "-", "3", "-", "1">>,
      parses |-> TRUE, day |-> 2],
     [str |-> <<"2", "0", "2", "4", "-", "0", "2", "-", "3", "0">>,
      parses |-> FALSE, day |-> 0],
     [str |-> <<"2", "0", "2", "3", "-", "0", "2", "-", "2", "9">>,
      parses |-> FALSE, day |-> 0],
     [str |-> <<"2", "0", "2", "4", "-", "1", "3", "-", "0", "1">>,
      parses |-> FALSE, day |-> 0],
     [str |-> <<"2", "0", "2", "4", "/", "0", "2", "/", "2", "8">>,
      parses |-> FALSE, day |-> 0],
     [str |-> <<"2", "8", "-", "0", "2", "-", "2", "0", "2", "4">>,
      parses |-> FALSE, day |-> 0],
     [str |-> <<>>,
      parses |-> FALSE, day |-> 0]
  >>

\* the clock readings of this specification: the first and the last
\* tick of each day
DateTimes == {d * TicksPerDay + s : d \in 0..MaxDay, s \in {0, TicksPerDay - 1}}

\* the reports a caller may hold: built by the constructor from that file
\* at any of these clock readings
InitDate ==
  /\ now = 0
  /\ adjusted = FALSE
  /\ reports \in [Objs -> {HeapDumpReport(_extract_machine_name(Basename(DateFile)), t,
                                          Basename(DateFile), DateFile) :
                             t \in DateTimes}]
  /\ store = EmptyDict
  /\ lock = Free
  /\ hpc = "idle"
  /\ hcur = 0
  /\ hpath = <<>>
  /\ pc = [r \in Objs |-> "none"]
  /\ result = [r \in Objs |-> NoResult]
  /\ nupdates = [r \in Objs |-> 0]
  /\ rpc = Idle
  /\ snap = {}
  /\ ret = 0
  /\ counts = NoCounts
  /\ lastcall = NoCall

\* a whole call of get_reports_by_date with the i-th date string
CallGetReportsByDate(i) ==
  /\ lock = Free
  /\ snap' = get_reports_by_date(store, reports, DateInputs[i].str)
  /\ lastcall' = [op |-> "get_reports_by_date", arg |-> i]
  /\ UNCHANGED <<now, adjusted, reports, store, lock, handlerVars, taskVars, rpc, ret, counts>>

NextDate ==
  \/ \E r \in Objs : CallAddReport(r)
  \/ \E i \in DOMAIN DateInputs : CallGetReportsByDate(i)

SpecDate == InitDate /\ [][NextDate]_vars

(* ------------------------------------------------------------------ *)
(* Properties.                                                         *)
(* ------------------------------------------------------------------ *)
Terminal == {"completed", "failed"}

\* the record the store holds under id
Stored(id) == reports[store[id]]

ResultFields(rec) ==
  <<rec.status, rec.suspects_report, rec.overview_report, rec.error_message,
    rec.processing_time>>

\* the result fields after a task has written the dict res back
Applied(res) ==
  <<res.status, Get(res, "suspects_report"), Get(res, "overview_report"),
    Get(res, "error_message"), Get(res, "processing_time")>>

\* the result fields after the except clause has run
ExceptApplied == <<"failed", None, None, Some("str(e)"), None>>

\* a record that is whole: untouched, or carrying all of one task result
Whole(rec) ==
  \/ ResultFields(rec) = <<"processing", None, None, None, None>>
  \/ \E run \in Runs : ResultFields(rec) = Applied(process_heap_dump(rec.file_path, run))
  \/ ResultFields(rec) = ExceptApplied

\* report r has been stored by add_report
Inserted(r) == pc[r] # "none" /\ ~(hcur = r /\ hpc \in {"l141", "l197"})

\* C1: every record a reader gets from get_all_reports or get_report_by_id
\* is whole when it reads it: its result fields are all initial or all those
\* of one task result.
C1_ReadersSeeWholeRecords ==
  /\ rpc = <<"l292", "">> => \A rec \in ReportsResponse : Whole(rec)
  /\ rpc = <<"l310", "">> /\ ret # 0 => Whole(reports[ret])

\* C2: a step of a background task changes the status of the record stored
\* under an id only from processing to completed or failed; a terminal
\* stored status is never changed by a task.
C2_TerminalIsFinal ==
  [][hpc' = hpc =>
       \A id \in DOMAIN store :
          Stored(id).status # reports'[store'[id]].status =>
             /\ Stored(id).status = "processing"
             /\ reports'[store'[id]].status \in Terminal]_vars

\* C3: the counts /api/status sends add up: processing + completed + failed
\* = total_reports.
C3_StatusCountsAddUp ==
  rpc = <<"l329", "">> =>
     StatusResponse.processing + StatusResponse.completed + StatusResponse.failed
        = StatusResponse.total_reports

\* C4: when two files of the same machine have been submitted in the same
\* second (same id), the store holds under that id the report inserted last,
\* also after their background tasks have written back.
C4_LastInsertWins ==
  \A a, b \in Objs :
     ( /\ a < b
       /\ Inserted(a) /\ Inserted(b)
       /\ reports[a].file_path # reports[b].file_path
       /\ report_id(reports[a]) = report_id(reports[b])
       /\ \A c \in Objs : c > b /\ Inserted(c) =>
                             report_id(reports[c]) # report_id(reports[b]) )
     => store[report_id(reports[b])] = b

\* C5: a background task calls update_report exactly once in its whole run,
\* on the normal path and on the exception path: never twice, and once when
\* it has finished.
C5_OneWriteBackPerTask ==
  \A r \in Objs :
     /\ nupdates[r] <= 1
     /\ pc[r] = "done" => nupdates[r] = 1
C5_Witness ==
  \E r, q \in Objs :
     /\ pc[r] = "done" /\ ResultFields(reports[r]) = ExceptApplied
     /\ pc[q] = "done" /\ reports[q].status = "completed"

\* C6: the list get_all_reports returned is a snapshot: while the reader
\* holds it, no record of it changes.
C6_SnapshotIndependent ==
  [][rpc = <<"l292", "">> /\ rpc' = rpc =>
       \A r \in snap : reports'[r] = reports[r]]_vars

\* C7: in every state, also in the middle of a write-back, a stored record
\* with a suspects or overview report is completed, and one with an error
\* message is failed.
C7_ArtifactsAndErrorMatchStatus ==
  \A id \in DOMAIN store :
     /\ (Stored(id).suspects_report # None \/ Stored(id).overview_report # None)
           => Stored(id).status = "completed"
     /\ Stored(id).error_message # None => Stored(id).status = "failed"
C7_Witness ==
  \E id \in DOMAIN store :
     /\ pc[store[id]] \in {"l160", "l161", "l162"}
     /\ Stored(id).suspects_report # None

\* the ids a run can store
AllIds ==
  {report_id(HeapDumpReport(_extract_machine_name(Basename(fp)), t, Basename(fp), fp)) :
     fp \in Files, t \in Times}

\* C8: under fair scheduling every submitted record reaches a terminal
\* state: a report that has been inserted is eventually completed or failed,
\* and so is the record stored under every id of the store.
C8_EveryRecordTerminates ==
  /\ \A r \in Objs : Inserted(r) ~> (reports[r].status \in Terminal)
  /\ \A id \in AllIds :
        (id \in DOMAIN store) ~> (id \in DOMAIN store /\ Stored(id).status \in Terminal)
C8_Witness ==
  /\ \A r \in Objs : pc[r] = "done" /\ reports[r].status \in Terminal
  /\ \E a, b \in Objs : a # b /\ report_id(reports[a]) = report_id(reports[b])

\* C9: a report is in the store before its background task starts, so every
\* update_report of a task finds the id of its report among the keys.
C9_InsertBeforeUpdate ==
  \A r \in Objs :
     pc[r] \notin {"none", "new"} => report_id(reports[r]) \in DOMAIN store
C9_Witness ==
  \E r \in Objs : pc[r] = "l203" /\ report_id(reports[r]) \in DOMAIN store

\* C10: update_report with a report whose id is no key leaves the store as
\* it is; with an id that is a key it replaces that entry and no other.
C10_UpdateFrame ==
  [][lastcall'.op = "update_report" /\ lastcall' # lastcall =>
       LET r == lastcall'.arg
           id == report_id(reports[r])
       IN IF id \in DOMAIN store
          THEN /\ DOMAIN store' = DOMAIN store
               /\ store'[id] = r
               /\ \A k \in DOMAIN store : k # id => store'[k] = store[k]
          ELSE store' = store]_vars
C10_Witness ==
  /\ lastcall.op = "update_report"
  /\ report_id(reports[lastcall.arg]) \notin DOMAIN store
  /\ store # EmptyDict

(* ---- C11 ---- *)
\* the result fields of a report as the constructor leaves them
Fresh == <<"processing", None, None, None, None>>

\* C11: get_report_by_id called right after add_report(report), with the id
\* of that report, returns that report, and the report is still as it was
\* constructed: status 'processing', no suspects report, no overview
\* report, no error message, no processing time.
C11_GetAfterAdd ==
  lastcall.op = "add_report" =>
    LET r == lastcall.arg
        got == get_report_by_id(store, report_id(reports[r]))
    IN /\ got = r
       /\ ResultFields(reports[got]) = Fresh
C11_Witness ==
  /\ lastcall.op = "add_report"
  /\ Cardinality(DOMAIN store) = 2
  /\ get_report_by_id(store, report_id(reports[lastcall.arg])) = lastcall.arg

C13_ArtifactsIffFilesExist ==
  \A r \in Objs :
    pc[r] = "done" =>
      \A run \in Runs :
        /\ run.kind = "exit0"
        /\ result[r] = process_heap_dump(reports[r].file_path, run)
        => /\ reports[r].status = "completed"
           /\ reports[r].error_message = None
           /\ reports[r].suspects_report =
                IF run.suspects_exists
                THEN Some(SuspectsPath(reports[r].file_path)) ELSE None
           /\ reports[r].overview_report =
                IF run.overview_exists
                THEN Some(OverviewPath(reports[r].file_path)) ELSE None
C13_Witness ==
  \E r \in Objs :
    /\ pc[r] = "done"
    /\ reports[r].status = "completed"
    /\ reports[r].suspects_report = None
    /\ reports[r].overview_report = Some(OverviewPath(reports[r].file_path))

(* ---- C14 ---- *)
\* C14: get_reports_by_date called with a string that is a date written
\* year-month-day returns the stored reports detected on that day, at
\* whatever time of the day, and no other; called with any other string it
\* returns the empty list; in both cases the store and the reports are
\* left as they were.
C14_ByDate ==
  [][lastcall'.op = "get_reports_by_date" /\ lastcall' # lastcall =>
       LET input == DateInputs[lastcall'.arg]
       IN /\ store' = store
          /\ reports' = reports
          /\ snap' = IF input.parses
                     THEN {r \in get_all_reports(store) :
                             reports[r].timestamp \div TicksPerDay = input.day}
                     ELSE {}]_vars
C14_Witness ==
  /\ lastcall.op = "get_reports_by_date"
  /\ DateInputs[lastcall.arg].parses
  /\ snap # {}
  /\ snap # get_all_reports(store)
  /\ \E r \in snap : reports[r].timestamp % TicksPerDay # 0

(* ---- C15 ---- *)
\* C15: the machine name of every report is a non-empty string: for every
\* file name the filter of on_created lets through (a path ending in
\* .hprof, .dump or .bin), _extract_machine_name returns at least one
\* character. It is a function of the file name alone.
C15_MachineNameNotEmpty ==
  \A r \in Objs :
    pc[r] # "none" =>
      /\ IsHeapDump(reports[r].file_path)
      /\ reports[r].machine_name # <<>>
C15_Witness ==
  \E r \in Objs :
    /\ pc[r] # "none"
    /\ reports[r].filename = <<".", "b", "i", "n">>
    /\ reports[r].machine_name = <<".", "b", "i", "n">>

(* ---- C19 ---- *)
\* C19: for a file name with no non-empty token before its first
\* underscore and with a non-empty token free of underscores between two
\* underscores, the machine name is the first such token from the left:
\* the one that follows the first underscore, or the first underscores
\* when several open the name.
C19_TokenAfterFirstUnderscore ==
  \A r \in Objs :
    pc[r] # "none" =>
      LET f == reports[r].filename
          us == Positions(f, "_")
          enclosed == {i \in us : \E j \in us :
                         j > i + 1 /\ \A k \in (i + 1)..(j - 1) : f[k] # "_"}
      IN us # {} /\ Min(us) = 1 /\ enclosed # {} =>
           LET i == Min(enclosed)
               j == Min({k \in us : k > i})
           IN reports[r].machine_name = SubSeq(f, i + 1, j - 1)

(* ---- C16 ---- *)
\* the fields of a report that say which dump it is of
Identity(rec) == <<rec.machine_name, rec.timestamp, rec.filename, rec.file_path>>

\* C16: the machine name, timestamp, file name and file path of the record
\* stored under an id are the same before and after every step that is no
\* insert, the update_report of a background thread among them.
C16_IdentityFieldsKept ==
  [][~(hpc = "l197" /\ hpc' # hpc) =>
       \A id \in DOMAIN store :
          /\ id \in DOMAIN store'
          /\ Identity(reports'[store'[id]]) = Identity(reports[store[id]])]_vars

(* ---- C17 ---- *)
\* C17: no thread holds the lock of the store while it sleeps the settle
\* delay or waits for the analyzer; and while some thread does either,
\* the lock is free or held by a thread that is inside one of the blocks
\* of ReportManager: the handler storing an entry, a background thread
\* replacing one, a request thread reading the map.
C17_LockOnlyInMapOperations ==
  /\ hpc \in {"l124", "l125"} => lock # HandlerThread
  /\ \A r \in Objs : pc[r] = "l156" => lock # TaskThread(r)
  /\ (hpc = "l124" \/ \E r \in Objs : pc[r] = "l156") =>
       \/ lock = Free
       \/ lock = HandlerThread /\ hpc = "l197"
       \/ \E r \in Objs : lock = TaskThread(r) /\ pc[r] = "l203"
       \/ lock = RequestThread /\ rpc[2] = "locked"
C17_Witness ==
  /\ hpc = "l124"
  /\ \E r \in Objs : pc[r] = "l156"
  /\ lock = RequestThread
  /\ rpc[2] = "locked"

(* ---- C18 ---- *)
\* the reports add_report has returned for, the reports whose thread has
\* been started
NumInserted == Cardinality({r \in Objs : Inserted(r)})
NumStarted == Cardinality({r \in Objs : pc[r] \notin {"none", "new"}})

\* C18 as stated: in every state as many threads have been started as
\* reports have been inserted.
C18_StartedEqualsInserted == NumStarted = NumInserted

\* C18 amended: the thread of a report is started after the report is
\* stored, by the call that stored it and without that call waiting for
\* any other thread: in every state the threads started are those of the
\* reports inserted, but for the report the handler has stored and is
\* about to start the thread of (between line 141 and line 149); between
\* two files the two numbers are equal.
C18_StartedFollowsInserted ==
  /\ \A r \in Objs : pc[r] \notin {"none", "new"} => Inserted(r)
  /\ NumInserted = NumStarted + (IF hpc = "l149" THEN 1 ELSE 0)
C18_Witness == \A r \in Objs : pc[r] = "l156"

(* ---- C20 ---- *)
\* any two reports built so far were detected two seconds apart or more,
\* have different ids, and the store has one id for each report inserted
TwoSecondsApart ==
  /\ \A a, b \in Objs :
       a # b /\ pc[a] # "none" /\ pc[b] # "none" =>
         /\ \/ reports[a].timestamp - reports[b].timestamp >= 2 * TicksPerSecond
            \/ reports[b].timestamp - reports[a].timestamp >= 2 * TicksPerSecond
         /\ report_id(reports[a]) # report_id(reports[b])
  /\ Cardinality(DOMAIN store) = NumInserted

\* C20 as stated: with the events delivered one after the other, the
\* timestamps of two reports are two seconds apart or more, so no two
\* reports share an id and the store has as many ids as files were taken.
C20_DistinctIds == TwoSecondsApart

\* C20 amended: the same, as long as the wall clock that datetime.now()
\* reads has not been set back.
C20_DistinctIdsWhileClockNotSetBack == ~adjusted => TwoSecondsApart
C20_Witness ==
  /\ ~adjusted
  /\ \E a, b \in Objs :
       /\ a # b
       /\ Inserted(a)
       /\ Inserted(b)
       /\ reports[a].machine_name = reports[b].machine_name

====
